---- MODULE Spec2Model ----
(***************************************************************************)
(* A model of app.py: the Flask upload handler upload_file and the core    *)
(* extract_images_from_pdf (page/image walk, content deduplication,        *)
(* JPEG2000 -> PNG normalisation, positional naming, writes to the         *)
(* EXTRACTED_FOLDER store).                                                *)
(*                                                                         *)
(* A request is one thread of the Flask server running upload_file or, in  *)
(* the core specifications, one direct call of extract_images_from_pdf.    *)
(* The PDF is revealed to the call image by image, in the order the        *)
(* nested loops of lines 37-38 meet them (page by page, and within a page  *)
(* in the order of page.images); log[c] is the history of what the call    *)
(* met and what it did with it.                                            *)
(***************************************************************************)
EXTENDS Naturals, Sequences, FiniteSets, TLC

(* ------------------------------ bounds -------------------------------- *)
\* images one call meets at most
MaxImages == 3
\* byte payloads are the numbers 0..MaxPayload
MaxPayload == 3
\* hash values are 0..HashRange-1 (Python: 64-bit values, fewer than payloads)
HashRange == 3

(* ------------------------- program constants -------------------------- *)
MAX_FILE_SIZE == 2 * 1024 * 1024
ALLOWED_EXTENSIONS == {"pdf"}
\* the length every caller passes to generate_random_number
RandomLength == 30

Requests == {"r1", "r2"}

VARIABLES
    pc,           \* where each request is: idle, intake, open, walk, returned (line 78),
                  \* failed (returned by the outer handler, line 82), responded
    upload,       \* the multipart upload of the request (request.files["file"])
    saved,        \* whether the request's temporary PDF is in UPLOAD_FOLDER
    status,       \* HTTP status of the reply (0: none yet)
    seen,         \* seen_images, per call frame
    extracted,    \* extracted_files, per call frame
    image_count,  \* image_count, per call frame
    result,       \* the list extract_images_from_pdf returned
    store,        \* EXTRACTED_FOLDER: filename -> content
    log           \* history: the images each call met, in encounter order

vars == <<pc, upload, saved, status, seen, extracted, image_count, result, store, log>>

(* ------------------------------ values -------------------------------- *)
Payloads == 0..MaxPayload
\* random.randint(0, 9) draws from 0..9; the model keeps the two ends
Digits == {0, 9}

\* image.mode of a decoded image, as far as the code and the PNG encoder tell them apart
Modes == {"RGB", "RGBA", "P", "LA", "CMYK"}
\* modes carrying an alpha channel, and palette-indexed modes
AlphaModes == {"RGBA", "LA"}
PaletteModes == {"P"}
\* modes Pillow's PNG encoder writes; img.save raises on the others
PngModes == {"RGB", "RGBA", "P", "LA"}

NoName == [prefix |-> "", rand |-> << >>, ext |-> ""]
NoUpload == [present |-> FALSE, filename |-> << >>, size |-> 0]

\* str.lower() on the tokens the model uses
Lower(s) ==
    CASE s = "PDF" -> "pdf"
      [] s = "TXT" -> "txt"
      [] s = ".JPG" -> ".jpg"
      [] s = ".JP2" -> ".jp2"
      [] s = ".JPX" -> ".jpx"
      [] OTHER -> s

\* hash(image_data): a function of the bytes alone, not injective
Hash(data) == data % HashRange

\* generate_random_number(length): the digit strings it can return
\* (here those of one repeated digit)
generate_random_number(length) == {[i \in 1..length |-> d] : d \in Digits}

\* (mutant) seen_images, extracted_files and image_count kept in one module-level slot
FrameShared(c) == "r1"

\* the call frame that owns seen_images, extracted_files and image_count
Frame(c) == c

\* (mutant) anything seen makes the image a duplicate
IsDuplicateAnySeen(h, s) == s # {}

\* (mutant) the membership test dropped
IsDuplicateNever(h, s) == FALSE

\* line 42: image_hash in seen_images
IsDuplicate(h, s) == h \in s

\* (mutant) .jpx forgotten
IsJp2Only(ext) == ext = ".jp2"

\* line 49
IsJp2Family(ext) == ext \in {".jp2", ".jpx"}

\* (mutant) palette images not converted
ConvertModeRgbaOnly(mode) == IF mode = "RGBA" THEN "RGB" ELSE mode

\* lines 52-53: img.convert("RGB") for RGBA and P, any other mode kept
ConvertMode(mode) == IF mode \in {"RGBA", "P"} THEN "RGB" ELSE mode

Raw(data) == [data |-> data, format |-> "raw", mode |-> "none"]
Png(data, mode) == [data |-> data, format |-> "PNG", mode |-> mode]
\* the file a failed write leaves behind: created by open(), cut short
Truncated == [data |-> 0, format |-> "truncated", mode |-> "none"]
NoContent == [data |-> 0, format |-> "none", mode |-> "none"]

\* lines 48-60: the JPEG2000 branch; decoded is what Image.open made of the
\* bytes ("undecodable": it raised). ok = FALSE is the except branch.
Normalize(data, ext, decoded) ==
    IF ~IsJp2Family(ext)
    THEN [ok |-> TRUE, content |-> Raw(data), ext |-> ext]
    ELSE IF decoded = "undecodable"
         THEN [ok |-> FALSE, content |-> NoContent, ext |-> ext]
         ELSE IF ConvertMode(decoded) \notin PngModes
              THEN [ok |-> FALSE, content |-> NoContent, ext |-> ext]
              ELSE [ok |-> TRUE, content |-> Png(data, ConvertMode(decoded)), ext |-> ".png"]

\* (mutant) the name keyed on the raw loop index
NamingKeyByIndex(count, index) == index

\* lines 64 and 66 test image_count, the count of images written so far;
\* index is the number of images the loops have met before this one
NamingKey(count, index) == count

\* (mutant) no role prefix at all
NamePrefixNone(count) == ""

\* lines 64-69: the role prefix by the running count of written images
NamePrefix(count) ==
    IF count = 0 THEN "user-img-"
    ELSE IF count = 1 THEN "sign-img-"
    ELSE ""

\* lines 63-69: the f-string, kept as its three parts
FileName(count, random_number, ext) ==
    [prefix |-> NamePrefix(count), rand |-> random_number, ext |-> ext]

\* (mutant) the conversion error ends the call
AfterConversionErrorAbort == "failed"

\* line 60: continue; the call goes on with the next image
AfterConversionError == "walk"

\* line 82: what the outer handler returns
OuterHandlerResult(files) == << >>

\* line 73 / open(file_path, "wb"): put content under name, replacing what was there
Put(st, name, content) == (name :> content) @@ st

Entry(data, ext, fate, decoded, name) ==
    [data |-> data, ext |-> ext, fate |-> fate, decoded |-> decoded, name |-> name]

(* --------------------------- extract_images_from_pdf ------------------ *)
\* lines 32-35: PdfReader(pdf_file_path); parsed says whether it could read the file
Open(c, parsed) ==
    /\ pc[c] = "open"
    /\ IF parsed
       THEN /\ pc' = [pc EXCEPT ![c] = "walk"]
            /\ seen' = [seen EXCEPT ![Frame(c)] = {}]
            /\ extracted' = [extracted EXCEPT ![Frame(c)] = << >>]
            /\ image_count' = [image_count EXCEPT ![Frame(c)] = 0]
            /\ UNCHANGED result
       ELSE /\ pc' = [pc EXCEPT ![c] = "failed"]
            /\ result' = [result EXCEPT ![c] = OuterHandlerResult(<< >>)]
            /\ UNCHANGED <<seen, extracted, image_count>>
    /\ UNCHANGED <<upload, saved, status, store, log>>

\* lines 38-76: one pass of the inner loop on the next image of the page.
\* decoded: what Pillow makes of the bytes; random_number: what
\* generate_random_number(30) returns; io: how open()/write() of the output
\* file end ("ok", "open_fails": no file, "write_fails": a truncated file).
ProcessImage(c, data, ext0, decoded, random_number, io) ==
    LET f == Frame(c)
        ext == Lower(ext0)
        norm == Normalize(data, ext, decoded)
        name == FileName(NamingKey(image_count[f], Len(log[c])), random_number, norm.ext)
        seenNow == seen[f] \cup {Hash(data)}
    IN
    /\ pc[c] = "walk"
    /\ IF IsDuplicate(Hash(data), seen[f])
       THEN \* line 43: continue
            /\ log' = [log EXCEPT ![c] = Append(@, Entry(data, "", "dup", "none", NoName))]
            /\ UNCHANGED <<pc, seen, extracted, image_count, result, store>>
       ELSE IF ~norm.ok
       THEN \* lines 58-60: logged, continue
            /\ seen' = [seen EXCEPT ![f] = seenNow]
            /\ log' = [log EXCEPT ![c] = Append(@, Entry(data, ext0, "convfail", decoded, NoName))]
            /\ pc' = [pc EXCEPT ![c] = AfterConversionError]
            /\ UNCHANGED <<extracted, image_count, result, store>>
       ELSE IF io = "ok"
       THEN \* lines 71-76
            /\ seen' = [seen EXCEPT ![f] = seenNow]
            /\ store' = Put(store, name, norm.content)
            /\ extracted' = [extracted EXCEPT ![f] = Append(@, name)]
            /\ image_count' = [image_count EXCEPT ![f] = @ + 1]
            /\ log' = [log EXCEPT ![c] = Append(@, Entry(data, ext0, "written",
                           IF IsJp2Family(ext) THEN decoded ELSE "none", name))]
            /\ UNCHANGED <<pc, result>>
       ELSE \* line 72 or 73 raises: lines 80-82
            /\ seen' = [seen EXCEPT ![f] = seenNow]
            /\ store' = IF io = "write_fails" THEN Put(store, name, Truncated) ELSE store
            /\ log' = [log EXCEPT ![c] = Append(@,
                           IF io = "write_fails"
                           THEN Entry(data, ext0, io, "none", name)
                           ELSE Entry(data, ext0, io, "none", NoName))]
            /\ pc' = [pc EXCEPT ![c] = "failed"]
            /\ result' = [result EXCEPT ![c] = OuterHandlerResult(extracted[f])]
            /\ UNCHANGED <<extracted, image_count>>
    /\ UNCHANGED <<upload, saved, status>>

\* lines 37-39 raise (a page or an image stream pypdf cannot read): lines 80-82
ReadFail(c) ==
    /\ pc[c] = "walk"
    /\ pc' = [pc EXCEPT ![c] = "failed"]
    /\ result' = [result EXCEPT ![c] = OuterHandlerResult(extracted[Frame(c)])]
    /\ log' = [log EXCEPT ![c] = Append(@, Entry(0, "", "read_fails", "none", NoName))]
    /\ UNCHANGED <<upload, saved, status, seen, extracted, image_count, store>>

\* line 78: both loops are through
Finish(c) ==
    /\ pc[c] = "walk"
    /\ pc' = [pc EXCEPT ![c] = "returned"]
    /\ result' = [result EXCEPT ![c] = extracted[Frame(c)]]
    /\ UNCHANGED <<upload, saved, status, seen, extracted, image_count, store, log>>

(* ------------------------------- upload_file ------------------------- *)
\* "".join: the string a sequence of tokens spells
RECURSIVE Join(_)
Join(tokens) == IF tokens = << >> THEN "" ELSE Head(tokens) \o Join(Tail(tokens))

\* filename.split(".")[-1]: the tokens after the last "." (all of them if there is none)
RECURSIVE LastComponent(_)
LastComponent(tokens) ==
    IF tokens = << >> THEN << >>
    ELSE IF tokens[Len(tokens)] = "." THEN << >>
    ELSE Append(LastComponent(SubSeq(tokens, 1, Len(tokens) - 1)), tokens[Len(tokens)])

\* line 115
ExtensionAllowed(filename) == Lower(Join(LastComponent(filename))) \in ALLOWED_EXTENSIONS

\* line 111
TooLarge(size) == size > MAX_FILE_SIZE

\* lines 99-120: the checks of upload_file, then file.save
Intake(c) ==
    /\ pc[c] = "intake"
    /\ IF \/ ~upload[c].present
          \/ Join(upload[c].filename) = ""
          \/ TooLarge(upload[c].size)
          \/ ~ExtensionAllowed(upload[c].filename)
       THEN /\ status' = [status EXCEPT ![c] = 400]
            /\ pc' = [pc EXCEPT ![c] = "responded"]
            /\ UNCHANGED saved
       ELSE /\ saved' = [saved EXCEPT ![c] = TRUE]
            /\ pc' = [pc EXCEPT ![c] = "open"]
            /\ UNCHANGED status
    /\ UNCHANGED <<upload, seen, extracted, image_count, result, store, log>>

\* lines 124-143: os.remove of the temporary PDF (removed: whether it worked),
\* then the JSON reply
Respond(c, removed) ==
    /\ pc[c] \in {"returned", "failed"}
    /\ saved[c]
    /\ saved' = [saved EXCEPT ![c] = ~removed]
    /\ status' = [status EXCEPT ![c] = 200]
    /\ pc' = [pc EXCEPT ![c] = "responded"]
    /\ UNCHANGED <<upload, seen, extracted, image_count, result, store, log>>

(* ------------------------------ initial states ------------------------ *)
InitLocals ==
    /\ saved = [c \in Requests |-> FALSE]
    /\ status = [c \in Requests |-> 0]
    /\ seen = [c \in Requests |-> {}]
    /\ extracted = [c \in Requests |-> << >>]
    /\ image_count = [c \in Requests |-> 0]
    /\ result = [c \in Requests |-> << >>]
    /\ store = << >>
    /\ log = [c \in Requests |-> << >>]

IoOutcomes == {"ok", "open_fails", "write_fails"}
\* Pillow is run on JPEG2000 images only: the others have no decoding
Decodings(ext, outcomes) == IF IsJp2Family(Lower(ext)) THEN outcomes ELSE {"none"}

\* the steps of one call on the next image, inputs drawn from the given sets
Walk(c, cap, payloads, exts, decodings, rands, ios) ==
    \/ /\ Len(log[c]) < cap
       /\ \E data \in payloads, ext \in exts :
            \E decoded \in Decodings(ext, decodings),
               r \in rands, io \in ios :
                 ProcessImage(c, data, ext, decoded, r, io)
    \/ ReadFail(c)
    \/ Finish(c)

(* Spec: one direct call of extract_images_from_pdf, any document of up to  *)
(* MaxImages images over the payloads, JPEG and JPEG2000.                   *)
Init ==
    /\ pc = [c \in Requests |-> IF c = "r1" THEN "open" ELSE "idle"]
    /\ upload = [c \in Requests |-> NoUpload]
    /\ InitLocals

CoreExts == {".jpg", ".jp2"}
CoreDecoded == {"RGB", "undecodable"}

Next ==
    \E c \in {"r1"} :
        \/ \E parsed \in BOOLEAN : Open(c, parsed)
        \/ Walk(c, MaxImages, Payloads, CoreExts, CoreDecoded,
                generate_random_number(RandomLength), IoOutcomes)

Spec == Init /\ [][Next]_vars

(* SpecNorm: one direct call, every declared extension and every decoding. *)
NormPayloads == {0, 1, 2}
NormExts == {".png", ".jp2", ".jpx"}
NormDecoded == Modes \cup {"undecodable"}
\* the naming is not what this specification is about: one identifier
NormRandoms == {r \in generate_random_number(RandomLength) : r[1] = 0}

NextNorm ==
    \E c \in {"r1"} :
        \/ \E parsed \in BOOLEAN : Open(c, parsed)
        \/ Walk(c, MaxImages, NormPayloads, NormExts, NormDecoded, NormRandoms, {"ok"})

SpecNorm == Init /\ [][NextNorm]_vars

(* SpecConc: two calls of extract_images_from_pdf running concurrently     *)
(* (two threads of the server), interleaved image by image.                *)
\* images each of the concurrent calls meets at most
MaxConcImages == 2
ConcPayloads == {0, 1}

InitConc ==
    /\ pc = [c \in Requests |-> "open"]
    /\ upload = [c \in Requests |-> NoUpload]
    /\ InitLocals

NextConc ==
    \E c \in Requests :
        \/ \E parsed \in BOOLEAN : Open(c, parsed)
        \/ Walk(c, MaxConcImages, ConcPayloads, CoreExts, CoreDecoded,
                generate_random_number(RandomLength), {"ok"})

SpecConc == InitConc /\ [][NextConc]_vars

(* SpecUpload: one POST /images request through upload_file.               *)
UploadNames ==
    { << >>, <<"pdf">>, <<"a", ".", "pdf">>, <<"a", ".", "PDF">>, <<"a", ".", "txt">>,
      <<"a", ".", "pdf", ".", "txt">>, <<"a", ".">> }
UploadSizes == {MAX_FILE_SIZE - 1, MAX_FILE_SIZE, MAX_FILE_SIZE + 1}
Uploads ==
    {NoUpload} \cup [present : {TRUE}, filename : UploadNames, size : UploadSizes]

InitUpload ==
    /\ pc = [c \in Requests |-> IF c = "r1" THEN "intake" ELSE "idle"]
    /\ upload \in [Requests -> Uploads]
    /\ upload["r2"] = NoUpload
    /\ InitLocals

NextUpload ==
    \E c \in {"r1"} :
        \/ Intake(c)
        \/ \E parsed \in BOOLEAN : Open(c, parsed)
        \/ Walk(c, MaxConcImages, ConcPayloads, CoreExts, CoreDecoded,
                generate_random_number(RandomLength), IoOutcomes)
        \/ \E removed \in BOOLEAN : Respond(c, removed)

SpecUpload == InitUpload /\ [][NextUpload]_vars

(* ======================= properties of the model ======================= *)
Ended(c) == pc[c] \in {"returned", "failed", "responded"}
\* the call ran through both loops and returned at line 78
Completed(c) == pc[c] = "returned"

\* an entry of the history that is an image the call read
IsImage(e) == e.fate # "read_fails"
WrittenAt(l) == {i \in 1..Len(l) : l[i].fate = "written"}
\* how many images of l were written before the i-th
WrittenBefore(l, i) == Cardinality({j \in 1..(i - 1) : l[j].fate = "written"})
\* the i-th image has the payload of an earlier one / the hash of an earlier one
RepeatsPayload(l, i) == \E j \in 1..(i - 1) : IsImage(l[j]) /\ l[j].data = l[i].data
RepeatsHash(l, i) == \E j \in 1..(i - 1) : IsImage(l[j]) /\ Hash(l[j].data) = Hash(l[i].data)
PairwiseDistinct(l) ==
    \A i, j \in 1..Len(l) : (i # j /\ IsImage(l[i]) /\ IsImage(l[j])) => l[i].data # l[j].data
\* images of l with one hash have one payload: hash() tells the payloads of l apart
HashFaithful(l) ==
    \A i, j \in 1..Len(l) :
        (IsImage(l[i]) /\ IsImage(l[j]) /\ Hash(l[i].data) = Hash(l[j].data)) =>
            l[i].data = l[j].data

RECURSIVE NamesWritten(_)
\* the filenames of the images of l that were written, in encounter order
NamesWritten(l) ==
    IF l = << >> THEN << >>
    ELSE IF Head(l).fate = "written"
         THEN <<Head(l).name>> \o NamesWritten(Tail(l))
         ELSE NamesWritten(Tail(l))

ExpectedPrefix(i) == CASE i = 0 -> "user-img-" [] i = 1 -> "sign-img-" [] OTHER -> ""
ExpectedExt(declared) ==
    IF Lower(declared) \in {".jp2", ".jpx"} THEN ".png" ELSE Lower(declared)

(* C1: in every outcome of extract_images_from_pdf the filename returned at *)
(* index i is named from i, the number of images written before it: index 0 *)
(* is user-img-<R><ext>, index 1 sign-img-<R><ext>, every later one         *)
(* <R><ext>; <R> is 30 digits, <ext> the extension after normalisation of   *)
(* the image it belongs to, the image written with i images written before. *)
C1_NamedByWrittenCount ==
    \A c \in Requests : Ended(c) =>
        \A i \in 1..Len(result[c]) :
            LET n == result[c][i] IN
            /\ n.prefix = ExpectedPrefix(i - 1)
            /\ Len(n.rand) = 30
            /\ \A k \in 1..Len(n.rand) : n.rand[k] \in 0..9
            /\ \E j \in WrittenAt(log[c]) :
                   /\ WrittenBefore(log[c], j) = i - 1
                   /\ log[c][j].name = n
                   /\ n.ext = ExpectedExt(log[c][j].ext)

\* a call returned two names although it met three images: the second name,
\* sign-img, went to the image the loops met third
C1_Witness ==
    \E c \in Requests :
        /\ Completed(c)
        /\ Len(result[c]) = 2
        /\ Len(log[c]) = 3
        /\ log[c][3].fate = "written"
        /\ result[c][2] = log[c][3].name

(* C2 as claimed: a PDF whose N >= 1 images are pairwise byte-distinct      *)
(* yields exactly N filenames, the k-th for the k-th image met (stated for  *)
(* the calls that complete, on documents whose payloads hash() tells        *)
(* apart: the cases most favourable to the claim).                          *)
C2_Claimed ==
    \A c \in Requests :
        (Completed(c) /\ Len(log[c]) >= 1 /\ PairwiseDistinct(log[c]) /\ HashFaithful(log[c])) =>
            /\ Len(result[c]) = Len(log[c])
            /\ \A k \in 1..Len(result[c]) : result[c][k] = log[c][k].name

(* C2 amended: for a PDF of N >= 1 pairwise byte-distinct images, a call    *)
(* that completes returns one filename for each image whose hash no         *)
(* earlier image had and whose normalisation succeeded, in encounter        *)
(* order; it returns N filenames exactly when no two hashes collide and no  *)
(* JPEG2000 conversion fails; a call ended by the outer handler returns     *)
(* the empty list.                                                          *)
C2_DistinctImagesInOrder ==
    \A c \in Requests :
        LET l == log[c] IN
        /\ (Completed(c) /\ Len(l) >= 1 /\ PairwiseDistinct(l)) =>
              /\ \A i \in 1..Len(l) :
                    /\ l[i].fate \in {"dup", "convfail", "written"}
                    /\ l[i].fate = "dup" <=> RepeatsHash(l, i)
                    /\ l[i].fate = "convfail" =>
                          /\ IsJp2Family(Lower(l[i].ext))
                          /\ l[i].decoded \in {"undecodable", "CMYK"}
              /\ result[c] = NamesWritten(l)
              /\ Len(result[c]) <= Len(l)
              /\ Len(result[c]) = Len(l) <=>
                    \A i \in 1..Len(l) : ~RepeatsHash(l, i) /\ l[i].fate # "convfail"
        /\ pc[c] = "failed" => result[c] = << >>

\* three distinct images, the second skipped, the third returned second
C2_Witness ==
    \E c \in Requests :
        /\ Completed(c)
        /\ Len(log[c]) = 3
        /\ PairwiseDistinct(log[c])
        /\ log[c][2].fate # "written"
        /\ Len(result[c]) = 2
        /\ result[c][2] = log[c][3].name

C4_Claimed ==
    \A c \in Requests :
        (pc[c] \in {"returned", "failed"}) => result[c] = NamesWritten(log[c])

\* a step in which call c met one more image, and that image's entry
Stepped(c) == Len(log'[c]) = Len(log[c]) + 1
NewEntry(c) == log'[c][Len(log'[c])]
\* the image went past deduplication and its output file was written
Processed(e) == e.fate \in {"convfail", "written"}

C7_CallScopedState ==
    \A c \in Requests :
        LET l == log[c] IN
        /\ seen[c] = {Hash(l[i].data) : i \in {k \in 1..Len(l) : IsImage(l[k])}}
        /\ image_count[c] = Cardinality(WrittenAt(l))
        /\ extracted[c] = NamesWritten(l)
        /\ \A i \in 1..Len(l) :
              /\ (IsImage(l[i]) /\ RepeatsHash(l, i)) <=> l[i].fate = "dup"
              /\ l[i].fate = "written" =>
                    l[i].name.prefix = ExpectedPrefix(WrittenBefore(l, i))

\* both calls met the same payload and each wrote it as its user image
C7_Witness ==
    /\ Len(log["r1"]) >= 1 /\ Len(log["r2"]) >= 2
    /\ log["r1"][1].fate = "written"
    /\ log["r2"][2].fate = "written"
    /\ log["r1"][1].data = log["r2"][2].data
    /\ log["r2"][1].fate = "convfail"
    /\ log["r2"][2].name.prefix = "user-img-"

\* the writes of the calls: <<call, place in its history>>
Writes ==
    UNION {{<<c, i>> : i \in {k \in 1..Len(log[c]) : log[c][k].fate \in {"written", "write_fails"}}} :
           c \in Requests}
NameOfWrite(w) == log[w[1]][w[2]].name
PositionOfWrite(w) == WrittenBefore(log[w[1]], w[2])
RoleOf(position) == IF position >= 2 THEN 2 ELSE position

HasPdfExtension(filename) ==
    /\ Len(filename) >= 2
    /\ filename[Len(filename) - 1] = "."
    /\ Lower(filename[Len(filename)]) = "pdf"
Acceptable(u) ==
    /\ u.present
    /\ u.filename # << >>
    /\ u.size <= 2 * 1024 * 1024
    /\ HasPdfExtension(u.filename)

(* C9: upload_file reaches extract_images_from_pdf only for an upload of at *)
(* most 2 MiB whose filename has a .pdf extension; every other upload is    *)
(* answered 400 before the core is reached and before anything is saved.    *)
C9_Claimed ==
    \A c \in Requests :
        /\ (pc[c] \in {"open", "walk", "returned", "failed"} \/ saved[c] \/ log[c] # << >>)
              => Acceptable(upload[c])
        /\ (pc[c] = "responded" /\ ~Acceptable(upload[c])) => status[c] = 400

(* C10 as claimed: a decoded JPEG2000 image whose mode has an alpha channel *)
(* or is palette-indexed is converted to RGB before it is re-encoded, any   *)
(* other is re-encoded in its own mode.                                     *)
C10_Claimed ==
    [][\A c \in Requests :
          (Stepped(c) /\ NewEntry(c).fate = "written" /\ IsJp2Family(Lower(NewEntry(c).ext))) =>
              LET e == NewEntry(c) IN
              store'[e.name].mode =
                  IF e.decoded \in AlphaModes \cup PaletteModes THEN "RGB" ELSE e.decoded]_vars

(* C10 amended: a decoded JPEG2000 image whose mode is exactly RGBA or P is *)
(* converted to RGB before it is re-encoded as PNG; an image of any other   *)
(* mode, LA (grey with alpha) included, is re-encoded in its own mode.      *)
C10_ConvertsRgbaAndPaletteOnly ==
    [][\A c \in Requests :
          (Stepped(c) /\ NewEntry(c).fate = "written" /\ IsJp2Family(Lower(NewEntry(c).ext))) =>
              LET e == NewEntry(c) IN
              /\ store'[e.name].format = "PNG"
              /\ store'[e.name].mode =
                    IF e.decoded \in {"RGBA", "P"} THEN "RGB" ELSE e.decoded]_vars

\* a palette image stored as RGB and a grey-with-alpha image stored as LA
C10_Witness ==
    \E c \in Requests : \E i, j \in 1..Len(log[c]) :
        /\ log[c][i].fate = "written" /\ log[c][i].decoded = "P"
        /\ store[log[c][i].name].mode = "RGB"
        /\ log[c][j].fate = "written" /\ log[c][j].decoded = "LA"
        /\ store[log[c][j].name].mode = "LA"

====
